---- MODULE Spec2Model ----
(***************************************************************************)
(* Model of the PL011 UART driver (src/src/lib.rs).                        *)
(*                                                                         *)
(* The driver is a sequential program whose only state is the device it    *)
(* talks to, so the model has two parts: the device (the registers the     *)
(* driver accesses, and the transmit and receive FIFOs behind the Data and *)
(* Flag registers), and the driver's position in the operation it is       *)
(* executing.  Every volatile register access is one step, so the device   *)
(* may act between any two accesses of the driver.                         *)
(***************************************************************************)
EXTENDS Integers, Sequences, FiniteSets, TLC

(***************************************************************************)
(* Bit flags (bitflags! blocks of the source).                             *)
(***************************************************************************)
Data_DATA == 255
Data_FE == 256
Data_PE == 512
Data_BE == 1024
Data_OE == 2048

Flags_BUSY == 8
Flags_RXFE == 16
Flags_TXFF == 32
Flags_RXFF == 64
Flags_TXFE == 128

Control_UARTEN == 1
Control_TXE == 256
Control_RXE == 512

\* ReceiveStatus::empty()
ReceiveStatus_empty == 0

TwoTo8 == 2 ^ 8
TwoTo16 == 2 ^ 16

\* Bitwise and of two naturals.
RECURSIVE BitAnd(_, _)
BitAnd(a, b) ==
    IF a = 0 \/ b = 0 THEN 0
    ELSE (a % 2) * (b % 2) + 2 * BitAnd(a \div 2, b \div 2)

\* bitflags `contains`: every bit of mask is set in value.
contains(value, mask) == BitAnd(value, mask) = mask

\* `cr ^= Control::UARTEN` for `cr &= !Control::UARTEN`: the bits of mask
\* inverted instead of cleared.
clear_bits_toggled(value, mask) ==
    IF contains(value, mask) THEN value - mask ELSE value + mask

\* `cr &= !Control::UARTEN` on a u16.
clear_bits(value, mask) == value - BitAnd(value, mask)

(***************************************************************************)
(* u32 arithmetic.  A u32 is kept as two 16-bit halves, value              *)
(* hi * 2^16 + lo, so that every intermediate result stays inside the      *)
(* integers a model checker computes with.  The same representation with   *)
(* a wider hi holds the 34-bit exact value of clock * 4.                   *)
(***************************************************************************)
Wide(hi, lo) == [hi |-> hi, lo |-> lo]

FromNat(n) == Wide(n \div TwoTo16, n % TwoTo16)

Zero == Wide(0, 0)

WideLt(a, b) == a.hi < b.hi \/ (a.hi = b.hi /\ a.lo < b.lo)

\* a - b for a >= b
WideSub(a, b) ==
    IF a.lo >= b.lo THEN Wide(a.hi - b.hi, a.lo - b.lo)
    ELSE Wide(a.hi - b.hi - 1, a.lo + TwoTo16 - b.lo)

\* 2 * x + bit
WideDbl(x, bit) ==
    Wide(x.hi * 2 + (x.lo * 2 + bit) \div TwoTo16, (x.lo * 2 + bit) % TwoTo16)

WideBit(x, i) ==
    IF i < 16 THEN (x.lo \div (2 ^ i)) % 2 ELSE (x.hi \div (2 ^ (i - 16))) % 2

\* x * 4, all bits kept
WideShl2(x) == Wide(x.hi * 4 + x.lo \div (2 ^ 14), (x.lo * 4) % TwoTo16)

\* the low 32 bits of x
Truncate32(x) == Wide(x.hi % TwoTo16, x.lo)

\* The k-th base-256 digit of x, k = 0 .. 4.
WideByte(x, k) ==
    CASE k = 0 -> x.lo % TwoTo8
      [] k = 1 -> x.lo \div TwoTo8
      [] k = 2 -> x.hi % TwoTo8
      [] k = 3 -> (x.hi \div TwoTo8) % TwoTo8
      [] k = 4 -> x.hi \div TwoTo16

\* n / d for n < 2^34 and a natural 0 < d < 2^23: division digit by digit,
\* each partial dividend r * 256 + digit being below 2^31.
WideDivShort(n, d) ==
    LET t4 == WideByte(n, 4)
        t3 == (t4 % d) * TwoTo8 + WideByte(n, 3)
        t2 == (t3 % d) * TwoTo8 + WideByte(n, 2)
        t1 == (t2 % d) * TwoTo8 + WideByte(n, 1)
        t0 == (t1 % d) * TwoTo8 + WideByte(n, 0)
    IN  Wide((t4 \div d) * TwoTo16 + (t3 \div d) * TwoTo8 + (t2 \div d),
             (t1 \div d) * TwoTo8 + (t0 \div d))

\* Restoring division, bit i-1 down to bit 0 of n; q and r are the quotient
\* and remainder of the bits above.
RECURSIVE WideDivStep(_, _, _, _, _)
WideDivStep(n, d, i, q, r) ==
    IF i = 0 THEN q
    ELSE LET r2 == WideDbl(r, WideBit(n, i - 1))
             ge == ~WideLt(r2, d)
         IN  WideDivStep(n, d, i - 1,
                         WideDbl(q, IF ge THEN 1 ELSE 0),
                         IF ge THEN WideSub(r2, d) ELSE r2)

\* x >> 12
WideShr12(x) == Wide(x.hi \div (2 ^ 12), (x.hi % (2 ^ 12)) * 16 + x.lo \div (2 ^ 12))

\* n / d (integer division) for n < 2^34 and d > 0.  For d >= 2^23 the
\* quotient is below 2^11 and n >> 12 is below d, so only the low 12 bits
\* of n are left to divide.
WideDiv(n, d) ==
    IF d.hi < 128 THEN WideDivShort(n, d.hi * TwoTo16 + d.lo)
    ELSE WideDivStep(n, d, 12, Zero, WideShr12(n))

\* x >> 6
WideShr6(x) == Wide(x.hi \div 64, (x.hi % 64) * (2 ^ 10) + x.lo \div 64)

\* `clock << 2` on u32: the two high bits are shifted out.
u32_shl2(clock) == Truncate32(WideShl2(clock))

\* `(clock << 2) / baud_rate` of init, for baud_rate # 0.
init_divisor(clock, baud_rate) == WideDiv(u32_shl2(clock), baud_rate)

\* `(divisor >> 6).try_into()` to u16: Ok exactly when the value fits 16 bits,
\* and then the value.
init_ibrd_ok(divisor) == WideShr6(divisor).hi = 0

init_ibrd(divisor) == WideShr6(divisor).lo

\* `(divisor & 0x3F).try_into()` to u8: at most 63, so it always fits.
init_fbrd(divisor) == divisor.lo % 64

(***************************************************************************)
(* State.                                                                  *)
(***************************************************************************)
VARIABLES
    cr,         \* Control Register
    ibrd,       \* Integer Baud Rate Register
    fbrd,       \* Fractional Baud Rate Register
    rsr,        \* Receive Status Register / Error Clear Register
    txFifo,     \* device: transmit FIFO behind writes of the Data Register
    txShift,    \* device: the character being sent, <<>> when none is
    rxFifo,     \* device: receive FIFO behind reads of the Data Register
    pc,         \* driver: position in the operation being executed
    op,         \* driver: the operation called by the user of the driver
    args,       \* driver: arguments of that call
    local,      \* driver: local variables of the operation
    ret,        \* driver: result of the last finished operation
    log,        \* register accesses of the current call, in order
    callStart,  \* Len(log) when the innermost write_byte / read_byte began
    prev,       \* driver: the call before the current one, and its result
    other,      \* a second execution context using the same device
    submitted,  \* history: bytes the caller handed to transmit operations
    enqueued,   \* history: bytes the device took into the transmit FIFO
    txDropped,  \* history: Data Register writes that found the FIFO full
    received,   \* history: entries the device put into the receive FIFO
    results     \* history: outcomes of the Data Register reads of read_byte

device == <<cr, ibrd, fbrd, rsr, txFifo, txShift, rxFifo>>
driver == <<pc, op, args, local, ret, log, callStart, prev>>
history == <<submitted, enqueued, txDropped, received, results>>
vars == <<cr, ibrd, fbrd, rsr, txFifo, txShift, rxFifo, pc, op, args, local, ret, log,
          callStart, prev, other, submitted, enqueued, txDropped, received, results>>

NoArgs == [clock |-> Zero, baud_rate |-> Zero, byte |-> 0, buf |-> <<>>]
NoLocal == [divisor |-> Zero, cr |-> 0, byte |-> 0, i |-> 0, buf |-> <<>>]
NoRet == <<"none">>
NoPrev == <<"none", NoRet>>
\* The second execution context while it is outside the driver.
IdleContext == [pc |-> "idle", op |-> "none", byte |-> 0, ret |-> NoRet, log |-> <<>>]

\* One register access of the log.
Read(reg, value) == <<"read", reg, value>>
Write(reg, value) == <<"write", reg, value>>

\* The driver between two calls, and before the first; no other context is
\* inside the driver.
IdleDriver ==
    /\ prev = NoPrev
    /\ other = IdleContext
    /\ pc = "idle"
    /\ op = "new"
    /\ args = NoArgs
    /\ local = NoLocal
    /\ ret = NoRet
    /\ log = <<>>
    /\ callStart = 0

\* Nothing transmitted or received yet.
EmptyHistory ==
    /\ submitted = <<>>
    /\ enqueued = <<>>
    /\ txDropped = 0
    /\ received = <<>>
    /\ results = <<>>

(***************************************************************************)
(* Uart::init                                                              *)
(***************************************************************************)
\* init(clock, baud_rate): `let divisor = (clock << 2) / baud_rate;`
\* Division by zero panics.
init_call(clock, baud_rate) ==
    /\ pc = "idle"
    /\ op' = "init"
    /\ prev' = <<op, ret>>
    /\ args' = [NoArgs EXCEPT !.clock = clock, !.baud_rate = baud_rate]
    /\ log' = <<>>
    /\ callStart' = 0
    /\ ret' = NoRet
    /\ IF baud_rate = Zero
       THEN /\ pc' = "panicked"
            /\ local' = NoLocal
       ELSE /\ pc' = "init_read_cr"
            /\ local' = [NoLocal EXCEPT !.divisor = init_divisor(clock, baud_rate)]
    /\ UNCHANGED <<other, device, history>>

\* `let mut cr: Control = addr_of_mut!((*self.registers).cr).read_volatile();`
\* `cr &= !Control::UARTEN;`
init_read_cr ==
    /\ pc = "init_read_cr"
    /\ log' = Append(log, Read("cr", cr))
    /\ local' = [local EXCEPT !.cr = clear_bits(cr, Control_UARTEN)]
    /\ pc' = "init_write_cr"
    /\ UNCHANGED <<other, device, op, prev, args, ret, callStart, history>>

\* init without the write that disables the UART.
init_write_cr_skipped ==
    /\ pc = "init_write_cr"
    /\ pc' = "init_write_ibrd"
    /\ UNCHANGED <<other, device, op, prev, args, local, ret, log, callStart, history>>

\* `addr_of_mut!((*self.registers).cr).write_volatile(cr);`
init_write_cr ==
    /\ pc = "init_write_cr"
    /\ cr' = local.cr
    /\ log' = Append(log, Write("cr", local.cr))
    /\ pc' = "init_write_ibrd"
    /\ UNCHANGED <<other, txShift, ibrd, fbrd, rsr, txFifo, rxFifo, op, prev, args, local, ret,
                   callStart, history>>

\* `...ibrd).write_volatile((divisor >> 6).try_into().unwrap());`
\* unwrap panics when the value does not fit u16.
init_write_ibrd ==
    /\ pc = "init_write_ibrd"
    /\ IF ~init_ibrd_ok(local.divisor)
       THEN /\ pc' = "panicked"
            /\ UNCHANGED <<ibrd, log>>
       ELSE /\ ibrd' = init_ibrd(local.divisor)
            /\ log' = Append(log, Write("ibrd", init_ibrd(local.divisor)))
            /\ pc' = "init_write_fbrd"
    /\ UNCHANGED <<other, txShift, cr, fbrd, rsr, txFifo, rxFifo, op, prev, args, local, ret,
                   callStart, history>>

\* `...fbrd).write_volatile((divisor & 0x3F).try_into().unwrap());`
init_write_fbrd ==
    /\ pc = "init_write_fbrd"
    /\ fbrd' = init_fbrd(local.divisor)
    /\ log' = Append(log, Write("fbrd", init_fbrd(local.divisor)))
    /\ pc' = "init_write_rsr"
    /\ UNCHANGED <<other, txShift, cr, ibrd, rsr, txFifo, rxFifo, op, prev, args, local, ret,
                   callStart, history>>

\* init without the write that clears the receive errors.
init_write_rsr_skipped ==
    /\ pc = "init_write_rsr"
    /\ pc' = "init_enable"
    /\ UNCHANGED <<other, device, op, prev, args, local, ret, log, callStart, history>>

\* init that also programs the line control register, for 8-bit words with
\* the FIFOs enabled.
init_write_rsr_and_lcr_h ==
    /\ pc = "init_write_rsr"
    /\ rsr' = ReceiveStatus_empty
    /\ log' = log \o << Write("rsr", ReceiveStatus_empty), Write("lcr_h", 112) >>
    /\ pc' = "init_enable"
    /\ UNCHANGED <<other, txShift, cr, ibrd, fbrd, txFifo, rxFifo, op, prev, args, local, ret,
                   callStart, history>>

\* `...rsr).write_volatile(ReceiveStatus::empty());`
init_write_rsr ==
    /\ pc = "init_write_rsr"
    /\ rsr' = ReceiveStatus_empty
    /\ log' = Append(log, Write("rsr", ReceiveStatus_empty))
    /\ pc' = "init_enable"
    /\ UNCHANGED <<other, txShift, cr, ibrd, fbrd, txFifo, rxFifo, op, prev, args, local, ret,
                   callStart, history>>

\* `...cr).write_volatile(Control::RXE | Control::TXE | Control::UARTEN);`
init_enable ==
    /\ pc = "init_enable"
    /\ cr' = Control_RXE + Control_TXE + Control_UARTEN
    /\ log' = Append(log, Write("cr", Control_RXE + Control_TXE + Control_UARTEN))
    /\ pc' = "idle"
    /\ ret' = <<"unit">>
    /\ UNCHANGED <<other, txShift, ibrd, fbrd, rsr, txFifo, rxFifo, op, prev, args, local,
                   callStart, history>>

init_steps ==
    \/ init_read_cr
    \/ init_write_cr
    \/ init_write_ibrd
    \/ init_write_fbrd
    \/ init_write_rsr
    \/ init_enable

(***************************************************************************)
(* The device, as the driver sees it through the Flag and Data registers.  *)
(***************************************************************************)
\* Depth of the transmit and of the receive FIFO.
FifoDepth == 2

\* The Flag Register: the FIFO status bits, and BUSY while a character is
\* queued or being sent (modem lines low).
FlagRegister ==
      (IF txFifo # <<>> \/ txShift # <<>> THEN Flags_BUSY ELSE 0)
    + (IF rxFifo = <<>> THEN Flags_RXFE ELSE 0)
    + (IF Len(txFifo) >= FifoDepth THEN Flags_TXFF ELSE 0)
    + (IF Len(rxFifo) >= FifoDepth THEN Flags_RXFF ELSE 0)
    + (IF txFifo = <<>> THEN Flags_TXFE ELSE 0)

\* The device starts to send the oldest character of the transmit FIFO.
hw_transmit ==
    /\ txShift = <<>>
    /\ txFifo # <<>>
    /\ txShift' = <<Head(txFifo)>>
    /\ txFifo' = Tail(txFifo)
    /\ UNCHANGED <<other, cr, ibrd, fbrd, rsr, rxFifo, driver, history>>

\* The device has sent the character, stop bits included.
hw_transmitted ==
    /\ txShift # <<>>
    /\ txShift' = <<>>
    /\ UNCHANGED <<other, cr, ibrd, fbrd, rsr, txFifo, rxFifo, driver, history>>

\* Most entries the device receives in one behaviour.
MaxReceived == 3

\* The device receives a character, with its error bits, into the receive FIFO.
hw_receive(entry) ==
    /\ Len(rxFifo) < FifoDepth
    /\ Len(received) < MaxReceived
    /\ rxFifo' = Append(rxFifo, entry)
    /\ received' = Append(received, entry)
    /\ UNCHANGED <<other, txShift, cr, ibrd, fbrd, rsr, txFifo, driver, submitted, enqueued,
                   txDropped, results>>

\* Most flag reads one busy-wait loop makes before the device has to act.
MaxSpin == 2

\* Most bytes handed to the transmit operations in one behaviour.
MaxSubmitted == 3

(***************************************************************************)
(* Uart::write_byte, and its callers write_str and Write::write.           *)
(***************************************************************************)
\* Entry of write_byte(byte), from the user or from write / write_str.
enter_write_byte(byte, i) ==
    /\ local' = [NoLocal EXCEPT !.byte = byte, !.i = i]
    /\ pc' = "write_byte_flags"

\* write_byte(byte) called by the user.
write_byte_call(byte) ==
    /\ pc = "idle"
    /\ Len(submitted) < MaxSubmitted
    /\ op' = "write_byte"
    /\ prev' = <<op, ret>>
    /\ args' = [NoArgs EXCEPT !.byte = byte]
    /\ log' = <<>>
    /\ callStart' = 0
    /\ ret' = NoRet
    /\ enter_write_byte(byte, 0)
    /\ submitted' = Append(submitted, byte)
    /\ UNCHANGED <<other, device, enqueued, txDropped, received, results>>

\* write_byte with `if` for `while`: one look at the flags, then the write.
write_byte_flags_once ==
    /\ pc = "write_byte_flags"
    /\ log' = Append(log, Read("fr", FlagRegister))
    /\ pc' = "write_byte_dr"
    /\ UNCHANGED <<other, device, op, prev, args, local, ret, callStart, history>>

\* write_byte with a bounded wait: it gives up with an error after MaxSpin
\* reads that showed the transmit FIFO full.
write_byte_flags_timeout ==
    /\ pc = "write_byte_flags"
    /\ log' = Append(log, Read("fr", FlagRegister))
    /\ IF contains(FlagRegister, Flags_TXFF)
       THEN IF Len(log) - callStart < MaxSpin
            THEN pc' = "write_byte_flags" /\ UNCHANGED ret
            ELSE pc' = "idle" /\ ret' = <<"Err", "Timeout">>
       ELSE pc' = "write_byte_dr" /\ UNCHANGED ret
    /\ UNCHANGED <<other, device, op, prev, args, local, callStart, history>>

\* `while self.flags().contains(Flags::TXFF) { spin_loop(); }`: one read of
\* the Flag Register and the test of the loop.
write_byte_flags ==
    /\ pc = "write_byte_flags"
    /\ log' = Append(log, Read("fr", FlagRegister))
    /\ IF contains(FlagRegister, Flags_TXFF)
       THEN /\ Len(log) - callStart < MaxSpin
            /\ pc' = "write_byte_flags"
       ELSE pc' = "write_byte_dr"
    /\ UNCHANGED <<other, device, op, prev, args, local, ret, callStart, history>>

\* The device's side of a write of the Data Register: the character is
\* queued, or lost when the transmit FIFO has no room.
dr_written(value) ==
    IF Len(txFifo) < FifoDepth
    THEN /\ txFifo' = Append(txFifo, value % TwoTo8)
         /\ enqueued' = Append(enqueued, value % TwoTo8)
         /\ UNCHANGED txDropped
    ELSE /\ txDropped' = txDropped + 1
         /\ UNCHANGED <<txFifo, enqueued>>

\* `byte as i8 as u16`: the byte sign-extended to 16 bits.
u16_from_sign_extended(byte) == IF byte >= 128 THEN 65280 + byte ELSE byte

\* `u16::from(byte)`: the byte zero-extended to 16 bits.
u16_from(byte) == byte

\* The loop of write_str leaving one byte too early.
write_byte_return_short ==
    CASE op = "write_byte" ->
            /\ pc' = "idle" /\ ret' = <<"unit">>
            /\ UNCHANGED <<local, callStart>>
      [] op = "write" ->
            /\ pc' = "idle" /\ ret' = <<"Ok", 1>>
            /\ UNCHANGED <<local, callStart>>
      [] op = "write_str" ->
            IF local.i < Len(args.buf) - 1
            THEN /\ enter_write_byte(args.buf[local.i + 1], local.i + 1)
                 /\ callStart' = Len(log')
                 /\ UNCHANGED ret
            ELSE /\ pc' = "idle" /\ ret' = <<"Ok">>
                 /\ UNCHANGED <<local, callStart>>

\* What follows the return of write_byte in the operation that called it.
write_byte_return ==
    CASE op = "write_byte" ->
            /\ pc' = "idle" /\ ret' = <<"unit">>
            /\ UNCHANGED <<local, callStart>>
      [] op = "write" ->
            /\ pc' = "idle" /\ ret' = <<"Ok", 1>>
            /\ UNCHANGED <<local, callStart>>
      [] op = "write_str" ->
            IF local.i < Len(args.buf)
            THEN /\ enter_write_byte(args.buf[local.i + 1], local.i + 1)
                 /\ callStart' = Len(log')
                 /\ UNCHANGED ret
            ELSE /\ pc' = "idle" /\ ret' = <<"Ok">>
                 /\ UNCHANGED <<local, callStart>>

\* `addr_of_mut!((*self.registers).dr).write_volatile(u16::from(byte));`
write_byte_dr ==
    /\ pc = "write_byte_dr"
    /\ log' = Append(log, Write("dr", u16_from(local.byte)))
    /\ dr_written(u16_from(local.byte))
    /\ write_byte_return
    /\ UNCHANGED <<other, txShift, cr, ibrd, fbrd, rsr, rxFifo, op, prev, args, submitted, received,
                   results>>

\* fmt::Write::write_str(s): `for c in s.as_bytes() { self.write_byte(*c); }`
write_str_call(s) ==
    /\ pc = "idle"
    /\ Len(submitted) + Len(s) <= MaxSubmitted
    /\ op' = "write_str"
    /\ prev' = <<op, ret>>
    /\ args' = [NoArgs EXCEPT !.buf = s]
    /\ log' = <<>>
    /\ callStart' = 0
    /\ submitted' = submitted \o s
    /\ IF s = <<>>
       THEN /\ pc' = "idle" /\ ret' = <<"Ok">> /\ local' = NoLocal
       ELSE /\ enter_write_byte(s[1], 1) /\ ret' = NoRet
    /\ UNCHANGED <<other, device, enqueued, txDropped, received, results>>

\* write sending the last byte of the buffer instead of the first.
write_call_last(buf) ==
    /\ pc = "idle"
    /\ Len(submitted) + (IF buf = <<>> THEN 0 ELSE 1) <= MaxSubmitted
    /\ op' = "write"
    /\ prev' = <<op, ret>>
    /\ args' = [NoArgs EXCEPT !.buf = buf]
    /\ log' = <<>>
    /\ callStart' = 0
    /\ IF buf = <<>>
       THEN /\ pc' = "idle" /\ ret' = <<"Ok", 0>> /\ local' = NoLocal
            /\ UNCHANGED submitted
       ELSE /\ enter_write_byte(buf[Len(buf)], 0) /\ ret' = NoRet
            /\ submitted' = Append(submitted, buf[Len(buf)])
    /\ UNCHANGED <<other, device, enqueued, txDropped, received, results>>

\* Write::write(buf): Ok(0) for an empty buffer, else write_byte(buf[0]).
\* The byte the call takes from the caller is buf[0], as its result 1 says.
write_call(buf) ==
    /\ pc = "idle"
    /\ Len(submitted) + (IF buf = <<>> THEN 0 ELSE 1) <= MaxSubmitted
    /\ op' = "write"
    /\ prev' = <<op, ret>>
    /\ args' = [NoArgs EXCEPT !.buf = buf]
    /\ log' = <<>>
    /\ callStart' = 0
    /\ IF buf = <<>>
       THEN /\ pc' = "idle" /\ ret' = <<"Ok", 0>> /\ local' = NoLocal
            /\ UNCHANGED submitted
       ELSE /\ enter_write_byte(buf[1], 0) /\ ret' = NoRet
            /\ submitted' = Append(submitted, buf[1])
    /\ UNCHANGED <<other, device, enqueued, txDropped, received, results>>

(***************************************************************************)
(* Status queries and flush.                                               *)
(***************************************************************************)
\* A call that reads the Flag Register once and returns.
flags_query(name, result) ==
    /\ pc = "idle"
    /\ op' = name
    /\ prev' = <<op, ret>>
    /\ args' = NoArgs
    /\ local' = NoLocal
    /\ log' = <<Read("fr", FlagRegister)>>
    /\ callStart' = 0
    /\ ret' = result
    /\ UNCHANGED <<other, pc, device, history>>

\* `self.flags().contains(Flags::BUSY)`
is_transmitting ==
    flags_query("is_transmitting", <<contains(FlagRegister, Flags_BUSY)>>)

\* write_ready without the negation: ready exactly when the FIFO is full.
write_ready_inverted ==
    flags_query("write_ready", <<"Ok", contains(FlagRegister, Flags_TXFF)>>)

\* `Ok(!self.flags().contains(Flags::TXFF))`
write_ready ==
    flags_query("write_ready", <<"Ok", ~contains(FlagRegister, Flags_TXFF)>>)

\* read_ready without the negation: ready exactly when the FIFO is empty.
read_ready_inverted ==
    flags_query("read_ready", <<"Ok", contains(FlagRegister, Flags_RXFE)>>)

\* `Ok(!self.flags().contains(Flags::RXFE))`
read_ready ==
    flags_query("read_ready", <<"Ok", ~contains(FlagRegister, Flags_RXFE)>>)

\* Write::flush called by the user.
flush_call ==
    /\ pc = "idle"
    /\ op' = "flush"
    /\ prev' = <<op, ret>>
    /\ args' = NoArgs
    /\ local' = NoLocal
    /\ log' = <<>>
    /\ callStart' = 0
    /\ ret' = NoRet
    /\ pc' = "flush_flags"
    /\ UNCHANGED <<other, device, history>>

\* flush that returns without looking at the device.
flush_flags_noop ==
    /\ pc = "flush_flags"
    /\ pc' = "idle"
    /\ ret' = <<"Ok">>
    /\ UNCHANGED <<other, device, op, prev, args, local, log, callStart, history>>

\* `while self.is_transmitting() { spin_loop(); }` then `Ok(())`: one read of
\* the Flag Register and the test of the loop.
flush_flags ==
    /\ pc = "flush_flags"
    /\ log' = Append(log, Read("fr", FlagRegister))
    /\ IF contains(FlagRegister, Flags_BUSY)
       THEN /\ Len(log) < MaxSpin
            /\ pc' = "flush_flags"
            /\ UNCHANGED ret
       ELSE /\ pc' = "idle"
            /\ ret' = <<"Ok">>
    /\ UNCHANGED <<other, device, op, prev, args, local, callStart, history>>

(***************************************************************************)
(* Uart::read_byte, and its caller Read::read.                             *)
(***************************************************************************)
\* All bits of Data: DATA | FE | PE | BE | OE.
Data_all == Data_DATA + Data_FE + Data_PE + Data_BE + Data_OE

\* `Data::from_bits_truncate(data)`
from_bits_truncate(data) == BitAnd(data, Data_all)

\* `data as u8`
as_u8(data) == data % TwoTo8

\* The result of read_byte for the value read from the Data Register, with
\* the tests in another order: overrun first.
read_byte_decode_reordered(data) ==
    LET error_status == from_bits_truncate(data)
    IN  IF contains(error_status, Data_OE) THEN <<"Err", "Overrun">>
        ELSE IF contains(error_status, Data_BE) THEN <<"Err", "Break">>
        ELSE IF contains(error_status, Data_PE) THEN <<"Err", "Parity">>
        ELSE IF contains(error_status, Data_FE) THEN <<"Err", "Framing">>
        ELSE <<"Ok", "Some", as_u8(data)>>

\* The result of read_byte for the value read from the Data Register.
read_byte_decode(data) ==
    LET error_status == from_bits_truncate(data)
    IN  IF contains(error_status, Data_FE) THEN <<"Err", "Framing">>
        ELSE IF contains(error_status, Data_PE) THEN <<"Err", "Parity">>
        ELSE IF contains(error_status, Data_BE) THEN <<"Err", "Break">>
        ELSE IF contains(error_status, Data_OE) THEN <<"Err", "Overrun">>
        ELSE <<"Ok", "Some", as_u8(data)>>

\* read_byte() called by the user.
read_byte_call ==
    /\ pc = "idle"
    /\ op' = "read_byte"
    /\ prev' = <<op, ret>>
    /\ args' = NoArgs
    /\ local' = NoLocal
    /\ log' = <<>>
    /\ callStart' = 0
    /\ ret' = NoRet
    /\ pc' = "read_byte_flags"
    /\ UNCHANGED <<other, device, history>>

\* Read::read(buf): Ok(0) for an empty buffer, else the loop on read_byte.
read_call(buf) ==
    /\ pc = "idle"
    /\ op' = "read"
    /\ prev' = <<op, ret>>
    /\ args' = [NoArgs EXCEPT !.buf = buf]
    /\ local' = [NoLocal EXCEPT !.buf = buf]
    /\ log' = <<>>
    /\ callStart' = 0
    /\ IF buf = <<>>
       THEN /\ pc' = "idle" /\ ret' = <<"Ok", 0>>
       ELSE /\ pc' = "read_byte_flags" /\ ret' = NoRet
    /\ UNCHANGED <<other, device, history>>

\* read_byte without the test of RXFE: the Data Register is always read.
read_byte_flags_unchecked ==
    /\ pc = "read_byte_flags"
    /\ log' = Append(log, Read("fr", FlagRegister))
    /\ pc' = "read_byte_dr"
    /\ UNCHANGED <<other, device, op, prev, args, local, ret, callStart, history>>

\* `if self.flags().contains(Flags::RXFE) { Ok(None) } else { ... }`: one read
\* of the Flag Register.  Ok(None) returns to the user, or to the loop of
\* read, which calls read_byte again.
read_byte_flags ==
    /\ pc = "read_byte_flags"
    /\ log' = Append(log, Read("fr", FlagRegister))
    /\ IF contains(FlagRegister, Flags_RXFE)
       THEN IF op = "read"
            THEN /\ Len(log) < MaxSpin
                 /\ pc' = "read_byte_flags"
                 /\ callStart' = Len(log')
                 /\ UNCHANGED ret
            ELSE /\ pc' = "idle"
                 /\ ret' = <<"Ok", "None">>
                 /\ UNCHANGED callStart
       ELSE /\ pc' = "read_byte_dr"
            /\ UNCHANGED <<ret, callStart>>
    /\ UNCHANGED <<other, device, op, prev, args, local, history>>

\* The values a read of the Data Register can return: the oldest entry of
\* the receive FIFO; any value when the FIFO is empty.
dr_values(any) == IF rxFifo = <<>> THEN any ELSE {Head(rxFifo)}

\* read looping past an error of read_byte instead of returning it.
read_byte_return_ignoring_errors(result) ==
    IF op = "read"
    THEN IF result[1] = "Ok"
         THEN /\ local' = [local EXCEPT !.buf = [local.buf EXCEPT ![1] = result[3]]]
              /\ ret' = <<"Ok", 1>>
              /\ pc' = "idle"
         ELSE /\ pc' = "read_byte_flags"
              /\ UNCHANGED <<local, ret>>
    ELSE /\ ret' = result
         /\ pc' = "idle"
         /\ UNCHANGED local

\* What follows the return of read_byte(), with its result, in the operation
\* that called it.  In read:
\* `if let Some(byte) = self.read_byte()? { buf[0] = byte; return Ok(1); }`
read_byte_return(result) ==
    IF op = "read" /\ result[1] = "Ok"
    THEN /\ local' = [local EXCEPT !.buf = [local.buf EXCEPT ![1] = result[3]]]
         /\ ret' = <<"Ok", 1>>
         /\ pc' = "idle"
    ELSE /\ ret' = result
         /\ pc' = "idle"
         /\ UNCHANGED local

\* A read of the Data Register that leaves an entry with an error bit in the
\* receive FIFO.
read_byte_dr_keeping_errors(any) ==
    /\ pc = "read_byte_dr"
    /\ \E data \in dr_values(any) :
          /\ log' = Append(log, Read("dr", data))
          /\ results' = Append(results, read_byte_decode(data))
          /\ read_byte_return(read_byte_decode(data))
          /\ rxFifo' = IF rxFifo = <<>> \/ read_byte_decode(data)[1] = "Err"
                       THEN rxFifo ELSE Tail(rxFifo)
    /\ UNCHANGED <<other, txShift, cr, ibrd, fbrd, rsr, txFifo, op, prev, args, callStart, submitted,
                   enqueued, txDropped, received>>

\* `let data = unsafe { addr_of!((*self.registers).dr).read_volatile() };`
\* and the decoding of data.  The read takes the entry out of the FIFO.
read_byte_dr(any) ==
    /\ pc = "read_byte_dr"
    /\ \E data \in dr_values(any) :
          /\ log' = Append(log, Read("dr", data))
          /\ results' = Append(results, read_byte_decode(data))
          /\ read_byte_return(read_byte_decode(data))
    /\ rxFifo' = IF rxFifo = <<>> THEN rxFifo ELSE Tail(rxFifo)
    /\ UNCHANGED <<other, txShift, cr, ibrd, fbrd, rsr, txFifo, op, prev, args, callStart, submitted,
                   enqueued, txDropped, received>>

(***************************************************************************)
(* Specifications of the transmit side and of the receive side.            *)
(***************************************************************************)
\* Bytes handed to the transmit operations: 0x41, and 0xFF with its top bit
\* set.
Bytes == { 65, 255 }

\* Longest buffer or string passed to write, write_str and read.
MaxBuf == 2

RECURSIVE SeqsUpTo(_, _)
SeqsUpTo(S, n) ==
    IF n = 0 THEN { <<>> }
    ELSE LET shorter == SeqsUpTo(S, n - 1)
         IN  shorter \cup { Append(q, x) : q \in shorter, x \in S }

Buffers == SeqsUpTo(Bytes, MaxBuf)

\* Entries of the receive FIFO: a character alone, with one error bit, with
\* several, and with the reserved bits 12 to 15 set.
RxEntries == { 66, 256 + 65, 512 + 256 + 67, 2048 + 1024 + 68, 2048 + 69,
               61440 + 70 }

ReadBuffers == SeqsUpTo({ 0 }, MaxBuf)

EnabledDevice ==
    /\ cr = Control_RXE + Control_TXE + Control_UARTEN
    /\ ibrd = 0
    /\ fbrd = 0
    /\ rsr = 0
    /\ txFifo = <<>>
    /\ txShift = <<>>
    /\ rxFifo = <<>>

Init == EnabledDevice /\ IdleDriver /\ EmptyHistory

NextTx ==
    \/ \E byte \in Bytes : write_byte_call(byte)
    \/ \E buf \in Buffers : write_call(buf)
    \/ \E s \in Buffers : write_str_call(s)
    \/ write_byte_flags
    \/ write_byte_dr
    \/ flush_call
    \/ flush_flags
    \/ is_transmitting
    \/ write_ready
    \/ hw_transmit
    \/ hw_transmitted

SpecTx == Init /\ [][NextTx]_vars

\* write_byte and the operations built on it, on a processor that keeps
\* executing the driver: a call that can take its next step does take it.
\* Nothing is assumed of the device, which may send its characters or hold
\* them for ever.
NextTxRunning ==
    \/ \E byte \in Bytes : write_byte_call(byte)
    \/ \E buf \in Buffers : write_call(buf)
    \/ \E s \in Buffers : write_str_call(s)
    \/ write_byte_flags
    \/ write_byte_dr
    \/ flush_call
    \/ flush_flags
    \/ hw_transmit
    \/ hw_transmitted

SpecTxRunning ==
    /\ Init /\ [][NextTxRunning]_vars
    /\ WF_vars(write_byte_flags)
    /\ WF_vars(write_byte_dr)

NextRx ==
    \/ read_byte_call
    \/ \E buf \in ReadBuffers : read_call(buf)
    \/ read_byte_flags
    \/ read_byte_dr(RxEntries)
    \/ read_ready
    \/ \E entry \in RxEntries : hw_receive(entry)

SpecRx == Init /\ [][NextRx]_vars

(***************************************************************************)
(* Specification of read_byte on one entry of the receive FIFO, over every *)
(* combination of the bits 8 to 15 of the Data Register.                   *)
(***************************************************************************)
DecodeEntries == { high * TwoTo8 + low : high \in 0 .. 255, low \in { 0, 66, 255 } }

InitDecode ==
    /\ cr = Control_RXE + Control_TXE + Control_UARTEN
    /\ ibrd = 0
    /\ fbrd = 0
    /\ rsr = 0
    /\ txFifo = <<>>
    /\ txShift = <<>>
    /\ rxFifo \in { <<entry>> : entry \in DecodeEntries }
    /\ IdleDriver
    /\ submitted = <<>>
    /\ enqueued = <<>>
    /\ txDropped = 0
    /\ received = rxFifo
    /\ results = <<>>

NextDecode ==
    \/ read_byte_call
    \/ read_byte_flags
    \/ read_byte_dr(DecodeEntries)

SpecDecode == InitDecode /\ [][NextDecode]_vars

(***************************************************************************)
(* Specification of init alone: any prior register contents, and clocks    *)
(* and baud rates over the whole u32 range.                                *)
(***************************************************************************)
InitClocks ==
    { Zero, FromNat(1), FromNat(1048575), FromNat(1048576), FromNat(24000000),
      FromNat(48000000), Wide(16383, 65535), Wide(16384, 0), Wide(18310, 35840),
      Wide(65535, 65535) }

InitBaudRates ==
    { Zero, FromNat(1), FromNat(3), FromNat(9600), FromNat(115200),
      FromNat(1048576), Wide(65535, 65535) }

InitControls == { 0, 1, 2, 768, 769, 128 + 1, 21845, 32768, 43690, 65534, 65535 }

InitReceiveStatus == { 0, 15 }

InitInit ==
    /\ cr \in InitControls
    /\ ibrd = 0
    /\ fbrd = 0
    /\ rsr \in InitReceiveStatus
    /\ txFifo = <<>>
    /\ txShift = <<>>
    /\ rxFifo = <<>>
    /\ IdleDriver
    /\ EmptyHistory

NextInit ==
    \/ \E clock \in InitClocks, baud_rate \in InitBaudRates :
           init_call(clock, baud_rate)
    \/ init_steps

SpecInit == InitInit /\ [][NextInit]_vars

(***************************************************************************)
(* A shared handle: `unsafe impl Sync for Uart`.  The methods on `&Uart`   *)
(* may be called from another context at any point of the owner's call.    *)
(***************************************************************************)
\* A status query that takes the flags from a read of the Data Register,
\* which removes the oldest entry of the receive FIFO.
other_is_transmitting_reading_data ==
    /\ other.pc = "idle"
    /\ rxFifo # <<>>
    /\ other' = [other EXCEPT !.op = "is_transmitting",
                              !.log = << Read("dr", Head(rxFifo)) >>,
                              !.ret = << contains(FlagRegister, Flags_BUSY) >>]
    /\ rxFifo' = Tail(rxFifo)
    /\ UNCHANGED <<cr, ibrd, fbrd, rsr, txFifo, txShift, driver, history>>

\* is_transmitting(&self) from the other context: `self.flags()` is one
\* read_volatile of the Flag Register, `.contains(Flags::BUSY)` its result.
other_is_transmitting ==
    /\ other.pc = "idle"
    /\ other' = [other EXCEPT !.op = "is_transmitting",
                              !.log = << Read("fr", FlagRegister) >>,
                              !.ret = << contains(FlagRegister, Flags_BUSY) >>]
    /\ UNCHANGED <<device, driver, history>>

\* write_byte(byte) entered by the other context, on the same registers.
other_write_byte_call(byte) ==
    /\ other.pc = "idle"
    /\ Len(submitted) < MaxSubmitted
    /\ other' = [pc |-> "write_byte_flags", op |-> "write_byte", byte |-> byte,
                 ret |-> NoRet, log |-> <<>>]
    /\ submitted' = Append(submitted, byte)
    /\ UNCHANGED <<device, driver, enqueued, txDropped, received, results>>

\* The other context with `if` for `while`: one look at the flags.
other_write_byte_flags_once ==
    /\ other.pc = "write_byte_flags"
    /\ other' = [other EXCEPT !.log = Append(@, Read("fr", FlagRegister)),
                              !.pc = "write_byte_dr"]
    /\ UNCHANGED <<device, driver, history>>

\* `while self.flags().contains(Flags::TXFF) { spin_loop(); }` in the other
\* context.
other_write_byte_flags ==
    /\ other.pc = "write_byte_flags"
    /\ contains(FlagRegister, Flags_TXFF) => Len(other.log) < MaxSpin
    /\ other' = [other EXCEPT !.log = Append(@, Read("fr", FlagRegister)),
                              !.pc = IF contains(FlagRegister, Flags_TXFF)
                                     THEN "write_byte_flags"
                                     ELSE "write_byte_dr"]
    /\ UNCHANGED <<device, driver, history>>

\* The write of the Data Register by the other context, and its return.
other_write_byte_dr ==
    /\ other.pc = "write_byte_dr"
    /\ other' = [other EXCEPT !.log = Append(@, Write("dr", u16_from(other.byte))),
                              !.pc = "idle",
                              !.ret = <<"unit">>]
    /\ dr_written(u16_from(other.byte))
    /\ UNCHANGED <<txShift, cr, ibrd, fbrd, rsr, rxFifo, driver, submitted, received,
                   results>>

\* Two contexts in write_byte on one device, their register accesses
\* interleaved in any order, and the device sending what it was given.
NextRace ==
    \/ \E byte \in Bytes : write_byte_call(byte)
    \/ write_byte_flags
    \/ write_byte_dr
    \/ \E byte \in Bytes : other_write_byte_call(byte)
    \/ other_write_byte_flags
    \/ other_write_byte_dr
    \/ hw_transmit
    \/ hw_transmitted

SpecRace == Init /\ [][NextRace]_vars

SharedClocks == { FromNat(24000000) }
SharedBaudRates == { FromNat(115200) }
SharedBytes == { 65 }
SharedEntries == { 66, 256 + 65 }

\* Most bytes written, and most entries received, in one behaviour of the
\* specifications that put the transmit and the receive side together.
MaxShared == 2

\* The owner's mutating operations and the device, with no other context.
NextOwner ==
    \/ \E clock \in SharedClocks, baud_rate \in SharedBaudRates :
           init_call(clock, baud_rate)
    \/ init_steps
    \/ Len(submitted) < MaxShared /\ \E byte \in SharedBytes : write_byte_call(byte)
    \/ write_byte_flags
    \/ write_byte_dr
    \/ read_byte_call
    \/ read_byte_flags
    \/ read_byte_dr(SharedEntries)
    \/ hw_transmit
    \/ hw_transmitted
    \/ Len(received) < MaxShared /\ \E entry \in SharedEntries : hw_receive(entry)

NextShared ==
    \/ NextOwner
    \/ other_is_transmitting

SpecShared == Init /\ [][NextShared]_vars

(***************************************************************************)
(* Every operation of the driver, called in any order by its one owner,    *)
(* from any prior contents of the control register.                        *)
(***************************************************************************)
\* Baud rates of the calls of init: one the registers can hold, one whose
\* divisor does not fit them, and zero.
AnyBaudRates == { FromNat(115200), FromNat(1), Zero }

\* The entry the device receives: the character 0x41 with a framing error.
AnyEntries == { 256 + 65 }

\* Most calls that hand bytes to the transmit side, and most entries
\* received, in one behaviour of all the operations together.
MaxTraffic == 1

\* Prior contents of the control register: every bit clear (the UART
\* disabled) and every bit set (the UART enabled).
AnyControls == { 0, 65535 }

InitAny ==
    /\ cr \in AnyControls
    /\ ibrd = 0
    /\ fbrd = 0
    /\ rsr = 0
    /\ txFifo = <<>>
    /\ txShift = <<>>
    /\ rxFifo = <<>>
    /\ IdleDriver
    /\ EmptyHistory

Next ==
    \/ \E clock \in SharedClocks, baud_rate \in AnyBaudRates :
           init_call(clock, baud_rate)
    \/ init_steps
    \/ Len(submitted) < MaxTraffic /\ \E byte \in SharedBytes : write_byte_call(byte)
    \/ Len(submitted) < MaxTraffic /\ \E buf \in SeqsUpTo(SharedBytes, MaxBuf) : write_call(buf)
    \/ Len(submitted) < MaxTraffic /\ \E s \in SeqsUpTo(SharedBytes, MaxBuf) : write_str_call(s)
    \/ write_byte_flags
    \/ write_byte_dr
    \/ flush_call
    \/ flush_flags
    \/ is_transmitting
    \/ write_ready
    \/ read_ready
    \/ read_byte_call
    \/ \E buf \in ReadBuffers : read_call(buf)
    \/ read_byte_flags
    \/ read_byte_dr(AnyEntries)
    \/ hw_transmit
    \/ hw_transmitted
    \/ Len(received) < MaxTraffic /\ \E entry \in AnyEntries : hw_receive(entry)

Spec == InitAny /\ [][Next]_vars

(***************************************************************************)
(* Claims.                                                                 *)
(***************************************************************************)
IsWrite(access) == access[1] = "write"
IsRead(access) == access[1] = "read"

\* The writes of the current call, in order.
Writes == SelectSeq(log, IsWrite)

InitReturned == op = "init" /\ pc = "idle"
InitPanicked == op = "init" /\ pc = "panicked"
InitEnded == InitReturned \/ InitPanicked

\* The five writes of init: disable, integer divisor, fractional divisor,
\* clear receive errors, enable with RX and TX.
FiveInitWrites ==
    /\ Len(Writes) = 5
    /\ Writes[1][2] = "cr" /\ Writes[1][3] % 2 = 0
    /\ Writes[2][2] = "ibrd"
    /\ Writes[3][2] = "fbrd"
    /\ Writes[4][2] = "rsr" /\ Writes[4][3] % 16 = 0
    /\ Writes[5] = Write("cr", 512 + 256 + 1)

\* init's divisor fits the registers: baud_rate is not zero and the integer
\* part of the divisor is at most 0xFFFF.
InitArgsAccepted ==
    /\ args.baud_rate # Zero
    /\ WideLt(WideShr6(WideDiv(Truncate32(WideShl2(args.clock)), args.baud_rate)),
              Wide(1, 0))

\* C1 as stated: for every prior register state and every argument pair,
\* a call of init issues exactly the five writes, in the fixed order.
C1_FiveWritesForAllArguments == InitEnded => FiveInitWrites

\* C1, amended: init returns exactly for the argument pairs whose divisor
\* fits the registers, and then it has issued exactly the five writes in the
\* fixed order; for the other pairs it panics, having written nothing when
\* baud_rate is zero and only the disabling control write otherwise.
C1_InitWriteOrder ==
    /\ InitReturned => InitArgsAccepted /\ FiveInitWrites
    /\ InitPanicked =>
          /\ ~InitArgsAccepted
          /\ IF args.baud_rate = Zero THEN log = <<>>
             ELSE /\ Len(Writes) = 1
                  /\ Writes[1][2] = "cr" /\ Writes[1][3] % 2 = 0

\* init has returned from a device whose control register had every bit set.
C1_Witness == InitReturned /\ Len(log) = 6 /\ log[1] = Read("cr", 65535)

\* The divisor with no bit lost: (clock * 4) / baud_rate over the naturals.
ExactDivisor == WideDiv(WideShl2(args.clock), args.baud_rate)

\* C2 as stated: for every clock and every baud_rate > 0, init completes and
\* the integer and fractional baud-rate registers hold divisor >> 6 and
\* divisor & 0x3F of the exact divisor (clock * 4) / baud_rate.
C2_ExactDivisorForAllArguments ==
    (op = "init" /\ args.baud_rate # Zero) =>
        /\ pc # "panicked"
        /\ pc = "idle" =>
              /\ Wide(0, ibrd) = WideShr6(ExactDivisor)
              /\ fbrd = ExactDivisor.lo % 64

\* Bit k of a register value.
HasBit(value, k) == (value \div (2 ^ k)) % 2 = 1

IsFlagRead(access) == IsRead(access) /\ access[2] = "fr"
IsDataRead(access) == IsRead(access) /\ access[2] = "dr"
IsDataWrite(access) == IsWrite(access) /\ access[2] = "dr"

\* Flag reads that showed the transmit FIFO full, the receive FIFO empty,
\* the UART busy.
SawTxFull(access) == IsFlagRead(access) /\ HasBit(access[3], 5)
SawRxEmpty(access) == IsFlagRead(access) /\ HasBit(access[3], 4)
SawBusy(access) == IsFlagRead(access) /\ HasBit(access[3], 3)

Transmitting == op \in { "write_byte", "write", "write_str" }

\* C3: write_byte never writes the Data Register while it observes the
\* transmit FIFO full: the access before every write of the Data Register is
\* a read of the flags that showed TXFF clear, a read that showed TXFF set is
\* followed by another read of the flags, and the write that is about to
\* happen follows a read that showed TXFF clear.
C3_NoWriteWhileTxFull ==
    Transmitting =>
        /\ \A i \in 1 .. Len(log) :
              /\ IsDataWrite(log[i]) =>
                    i > 1 /\ IsFlagRead(log[i - 1]) /\ ~SawTxFull(log[i - 1])
              /\ (SawTxFull(log[i]) /\ i < Len(log)) => IsFlagRead(log[i + 1])
        /\ pc = "write_byte_dr" =>
              /\ log # <<>>
              /\ IsFlagRead(log[Len(log)]) /\ ~SawTxFull(log[Len(log)])
        /\ (log # <<>> /\ SawTxFull(log[Len(log)])) => pc = "write_byte_flags"

\* write_byte has returned after seeing the transmit FIFO full at least once.
C3_Witness ==
    /\ op = "write_byte" /\ pc = "idle"
    /\ Len(log) >= 3
    /\ SawTxFull(log[1])
    /\ IsDataWrite(log[Len(log)])

\* The value read_byte must return for a value of the Data Register, by the
\* priority of the error bits: framing (bit 8), parity (bit 9), break
\* (bit 10), overrun (bit 11), else the low 8 bits.
Outcome(value) ==
    CASE HasBit(value, 8) -> <<"Err", "Framing">>
      [] ~HasBit(value, 8) /\ HasBit(value, 9) -> <<"Err", "Parity">>
      [] ~HasBit(value, 8) /\ ~HasBit(value, 9) /\ HasBit(value, 10) ->
            <<"Err", "Break">>
      [] ~HasBit(value, 8) /\ ~HasBit(value, 9) /\ ~HasBit(value, 10)
            /\ HasBit(value, 11) -> <<"Err", "Overrun">>
      [] OTHER -> <<"Ok", "Some", value % 256>>

\* C4: when RX-empty is clear, read_byte returns the outcome of the 16-bit
\* value it read from the Data Register by the fixed priority framing,
\* parity, break, overrun, and the low 8 bits only when none of the bits
\* 8 to 11 is set.
C4_DecodePriority ==
    (op = "read_byte" /\ pc = "idle" /\ Len(log) = 2) =>
        /\ ~SawRxEmpty(log[1])
        /\ IsDataRead(log[2])
        /\ ret = Outcome(log[2][3])

\* read_byte has returned Framing for an entry with all four error bits, and
\* the reserved bits, set.
C4_Witness ==
    /\ op = "read_byte" /\ pc = "idle"
    /\ Len(log) = 2 /\ log[2] = Read("dr", 65535)
    /\ ret = <<"Err", "Framing">>

Receiving == op \in { "read_byte", "read" }

\* C5: read_byte that sees RX-empty set returns Ok(None) without reading the
\* Data Register (so without taking an entry out of the receive FIFO);
\* read_byte that sees RX-empty clear reads the Data Register exactly once.
C5_NoDataReadWhenEmpty ==
    Receiving =>
        /\ \A i \in 1 .. Len(log) :
              /\ IsDataRead(log[i]) =>
                    /\ i > 1 /\ IsFlagRead(log[i - 1]) /\ ~SawRxEmpty(log[i - 1])
                    /\ i = Len(log)
              /\ (SawRxEmpty(log[i]) /\ i < Len(log)) => IsFlagRead(log[i + 1])
              /\ (IsFlagRead(log[i]) /\ ~SawRxEmpty(log[i])) =>
                    IF i = Len(log) THEN pc = "read_byte_dr"
                    ELSE IsDataRead(log[i + 1])
        /\ (op = "read_byte" /\ pc = "idle") =>
              /\ log # <<>> /\ IsFlagRead(log[1])
              /\ IF SawRxEmpty(log[1])
                 THEN ret = <<"Ok", "None">> /\ Len(log) = 1
                 ELSE Len(log) = 2 /\ IsDataRead(log[2]) /\ ret # <<"Ok", "None">>
        /\ Len(results) + Len(rxFifo) = Len(received)

\* read_byte has returned Ok(None) from an empty receive FIFO whose last
\* entry, read before, had an error bit.
C5_Witness ==
    /\ op = "read_byte" /\ pc = "idle"
    /\ ret = <<"Ok", "None">>
    /\ results # <<>> /\ results[Len(results)][1] = "Err"
    /\ rxFifo = <<>>

IsPrefix(p, q) == Len(p) <= Len(q) /\ SubSeq(q, 1, Len(p)) = p

\* C6: with one owner of the handle, the bytes the transmit FIFO takes are
\* the bytes the caller passed to write_byte, write and write_str, in call
\* order: always a prefix of them, all of them once the call has returned,
\* and no write of the Data Register is lost on a full FIFO.  The FIFO holds
\* the newest of them, oldest first.
C6_TransmitOrder ==
    /\ IsPrefix(enqueued, submitted)
    /\ pc = "idle" => enqueued = submitted
    /\ txDropped = 0
    /\ Len(txFifo) <= Len(enqueued)
    /\ txFifo = SubSeq(enqueued, Len(enqueued) - Len(txFifo) + 1, Len(enqueued))

\* write_str has returned after two different bytes, having waited for room.
C6_Witness ==
    /\ op = "write_str" /\ pc = "idle"
    /\ args.buf = <<65, 255>>
    /\ Len(submitted) = 3
    /\ \E i \in 1 .. Len(log) : SawTxFull(log[i])

\* C7: a read of the Data Register by read_byte takes one entry out of the
\* receive FIFO whether the entry has an error bit or not, and its result is
\* the outcome of that entry alone: the results of the reads so far are the
\* outcomes of the entries received so far, in order, and the FIFO holds the
\* entries not read yet.
C7_ErrorConsumesEntry ==
    /\ Len(results) <= Len(received)
    /\ \A i \in 1 .. Len(results) : results[i] = Outcome(received[i])
    /\ rxFifo = SubSeq(received, Len(results) + 1, Len(received))
    /\ (op = "read_byte" /\ pc = "idle" /\ Len(log) = 2) =>
          ret = results[Len(results)]

\* read_byte has returned a character right after it returned an error.
C7_Witness ==
    /\ op = "read_byte" /\ pc = "idle"
    /\ Len(results) >= 2
    /\ results[Len(results) - 1][1] = "Err"
    /\ results[Len(results)][1] = "Ok"
    /\ ret = results[Len(results)]

DataReads == SelectSeq(log, IsDataRead)

\* C8: read with an empty buffer returns 0 with no register access; with a
\* non-empty buffer it polls the flags while the receive FIFO is empty and
\* reads the Data Register once: a character is stored in buffer[0] and 1 is
\* returned, an error is returned at once and the buffer is left alone.
C8_ReadOneEntry ==
    op = "read" =>
        IF args.buf = <<>>
        THEN pc = "idle" /\ ret = <<"Ok", 0>> /\ log = <<>>
        ELSE /\ Len(DataReads) <= 1
             /\ \A i \in 1 .. Len(log) - 1 :
                   SawRxEmpty(log[i]) \/ (i + 1 = Len(log) /\ IsDataRead(log[i + 1]))
             /\ pc = "idle" <=> Len(DataReads) = 1
             /\ pc = "idle" =>
                   LET outcome == Outcome(DataReads[1][3])
                   IN  IF outcome[1] = "Ok"
                       THEN /\ ret = <<"Ok", 1>>
                            /\ local.buf[1] = outcome[3]
                            /\ Len(local.buf) = Len(args.buf)
                            /\ \A k \in 2 .. Len(args.buf) :
                                  local.buf[k] = args.buf[k]
                       ELSE /\ ret = outcome
                            /\ local.buf = args.buf

\* read has returned an error after polling an empty FIFO, with a second
\* entry left in the FIFO.
C8_Witness ==
    /\ op = "read" /\ pc = "idle"
    /\ ret[1] = "Err"
    /\ Len(log) >= 3
    /\ rxFifo # <<>>

\* C9: write with an empty buffer returns 0 with no register access; with a
\* non-empty buffer of any length it returns 1 and writes the Data Register
\* exactly once, with buffer[0].
C9_WriteFirstByte ==
    op = "write" =>
        IF args.buf = <<>>
        THEN pc = "idle" /\ ret = <<"Ok", 0>> /\ log = <<>>
        ELSE /\ pc = "idle" =>
                   /\ ret = <<"Ok", 1>>
                   /\ Writes = << Write("dr", args.buf[1]) >>
                   /\ enqueued[Len(enqueued)] = args.buf[1]
             /\ pc # "idle" => Writes = <<>>

\* write has returned 1 for a buffer of two different bytes.
C9_Witness ==
    /\ op = "write" /\ pc = "idle"
    /\ args.buf = <<65, 255>>
    /\ ret = <<"Ok", 1>>

\* C10 as stated: flush is a no-op that returns without waiting for the busy
\* flag to clear: it is never still in its call after the flags showed BUSY.
C10_FlushReturnsWithoutWaiting ==
    (op = "flush" /\ pc = "flush_flags") =>
        \A i \in 1 .. Len(log) : ~SawBusy(log[i])

\* C10, amended: write_byte returns right after its write of the Data
\* Register, without waiting on the busy flag; flush is not a no-op: it reads
\* the flags until a read shows BUSY clear, and returns only then.
C10_FlushWaitsForIdle ==
    /\ (op = "write_byte" /\ pc = "idle") =>
          /\ log # <<>> /\ IsDataWrite(log[Len(log)])
          /\ \A i \in 1 .. Len(log) - 1 : IsFlagRead(log[i])
    /\ op = "flush" =>
          /\ \A i \in 1 .. Len(log) : IsFlagRead(log[i])
          /\ \A i \in 1 .. Len(log) - 1 : SawBusy(log[i])
          /\ pc = "idle" <=> (log # <<>> /\ ~SawBusy(log[Len(log)]))

\* flush has returned after it saw BUSY set and waited.
C10_Witness ==
    /\ op = "flush" /\ pc = "idle"
    /\ Len(log) >= 2
    /\ SawBusy(log[1])

\* C11 as stated: is_transmitting returns exactly the busy flag it read, and
\* a call of is_transmitting made right after write_byte returned, with no
\* other driver call in between, returns true, whatever the device has sent
\* in the meantime.
C11_BusyRightAfterWriteByte ==
    op = "is_transmitting" =>
        /\ log = << Read("fr", log[1][3]) >>
        /\ ret = << SawBusy(log[1]) >>
        /\ prev[1] = "write_byte" => ret = <<TRUE>>

\* The transmit FIFO has no room; a call of write_byte is under way; the
\* number of writes of the Data Register so far.
TxFull == Len(txFifo) >= FifoDepth
InWriteByte == pc \in { "write_byte_flags", "write_byte_dr" }
DataWrites == Len(enqueued) + txDropped

\* C12: write_byte has no timeout and no error outcome.  If the device keeps
\* making room in the transmit FIFO, every call of write_byte performs its
\* write of the Data Register and returns; while the transmit FIFO stays
\* full the call does not return, writes nothing and reports no error.
C12_WriteByteWaitsWithoutTimeout ==
    /\ ([]<>(~TxFull)) =>
          \A n \in 0 .. MaxSubmitted :
              (InWriteByte /\ DataWrites = n) ~> (DataWrites = n + 1)
    /\ [][ (pc = "write_byte_flags" /\ TxFull) =>
              /\ pc' = "write_byte_flags"
              /\ ret' = ret
              /\ DataWrites' = DataWrites ]_vars
    /\ [](Transmitting => pc # "panicked" /\ ret[1] # "Err")

\* write_byte has read the flags MaxSpin times, the transmit FIFO is still
\* full, and the call is still waiting.
C12_Witness ==
    /\ op = "write_byte" /\ pc = "write_byte_flags"
    /\ Len(log) = MaxSpin
    /\ \A i \in 1 .. Len(log) : SawTxFull(log[i])
    /\ TxFull

\* C13: is_transmitting on a shared handle performs only a read of the Flag
\* Register and changes neither the device nor the owner's call: every step
\* of the owner's init, write_byte and read_byte and of the device, taken
\* with queries from another context in between, is a step the owner and the
\* device take without them, and a query leaves the device, the owner's
\* position, register accesses, result and the FIFO contents as they were.
C13_SharedQueryChangesNothing ==
    [][ IF other' = other
        THEN NextOwner
        ELSE /\ UNCHANGED <<device, driver, history>>
             /\ other'.log = << Read("fr", FlagRegister) >>
             /\ other'.ret = << Len(txFifo) > 0 \/ Len(txShift) > 0 >> ]_vars

\* The other context has queried a busy device while the owner was between
\* the flag read and the Data write of write_byte.
C13_Witness ==
    /\ op = "write_byte" /\ pc = "write_byte_dr"
    /\ other.op = "is_transmitting"
    /\ other.ret = <<TRUE>>
    /\ Len(log) = 1

\* The last access of a log is a flag read that showed TXFF clear.
ObservedRoom(accesses) ==
    /\ accesses # <<>>
    /\ IsFlagRead(accesses[Len(accesses)])
    /\ ~SawTxFull(accesses[Len(accesses)])

\* Calls of write_byte that have not yet written the Data Register.
CallsUnderWay ==
    (IF InWriteByte THEN 1 ELSE 0) + (IF other.pc # "idle" THEN 1 ELSE 0)

\* C14: exclusive access is necessary.  With two contexts in write_byte each
\* still writes the Data Register only after its own flag read showed TXFF
\* clear, but that observation can be stale: the transmit FIFO is full at
\* the write only when the other context has used the device, and every
\* byte handed over is then queued, still to be written, or lost.
C14_StaleCheckLosesByte ==
    /\ pc = "write_byte_dr" => ObservedRoom(log)
    /\ other.pc = "write_byte_dr" => ObservedRoom(other.log)
    /\ (pc = "write_byte_dr" /\ TxFull) => other.op = "write_byte"
    /\ (other.pc = "write_byte_dr" /\ TxFull) => op = "write_byte"
    /\ txDropped > 0 => op = "write_byte" /\ other.op = "write_byte"
    /\ Len(submitted) = Len(enqueued) + txDropped + CallsUnderWay

\* Both contexts observed TXFF clear and then wrote the Data Register; the
\* second write found the transmit FIFO full and its byte is lost.
C14_Witness ==
    /\ pc = "idle" /\ other.pc = "idle"
    /\ Len(log) = 2 /\ ~SawTxFull(log[1]) /\ IsDataWrite(log[2])
    /\ Len(other.log) = 2 /\ ~SawTxFull(other.log[1]) /\ IsDataWrite(other.log[2])
    /\ txDropped = 1
    /\ Len(enqueued) < Len(submitted)

\* The access a step adds to the log is a write of the register reg.
WritesRegister(reg) ==
    /\ Len(log') = Len(log) + 1
    /\ IsWrite(log'[Len(log')])
    /\ log'[Len(log')][2] = reg

\* C15: the baud-rate registers are never programmed while the UART is
\* enabled: whatever the control register held at first and whatever
\* operations are called, at every write of ibrd or fbrd the UART-enable bit
\* of the control register is clear.
C15_BaudWrittenOnlyWhileDisabled ==
    [][ (WritesRegister("ibrd") \/ WritesRegister("fbrd")) =>
            cr % 2 = 0 ]_log

\* init has written both baud-rate registers of a UART that was enabled
\* with every control bit set, after transmit and receive traffic.
C15_Witness ==
    /\ op = "init" /\ pc = "init_write_rsr"
    /\ log[1] = Read("cr", 65535)
    /\ Len(Writes) = 3
    /\ submitted # <<>> /\ received # <<>>

DataWritesUpTo(i) == Len(SelectSeq(SubSeq(log, 1, i), IsDataWrite))

\* The byte passed to the k-th call of write_byte of the current operation.
BytePassed(k) == IF op = "write_byte" THEN args.byte ELSE args.buf[k]

\* Calls of write_byte the current operation has completed.
CallsReturned ==
    CASE op = "write_byte" -> IF pc = "idle" THEN 1 ELSE 0
      [] op = "write" -> IF pc = "idle" /\ args.buf # <<>> THEN 1 ELSE 0
      [] op = "write_str" -> IF pc = "idle" THEN Len(args.buf) ELSE local.i - 1

\* C17: each call of write_byte performs exactly one write of the Data
\* Register, as its last register access, and the 16-bit value written is
\* the byte zero-extended (bits 8 to 15 zero, 0x41 written as 0x0041); a
\* call whose first flag read shows TXFF clear performs that one flag read
\* and then the write, without spinning.
C17_OneZeroExtendedDataWrite ==
    Transmitting =>
        /\ DataWritesUpTo(Len(log)) = CallsReturned
        /\ \A i \in 1 .. Len(log) :
              /\ IsDataWrite(log[i]) =>
                    /\ log[i][3] = BytePassed(DataWritesUpTo(i))
                    /\ \A k \in 8 .. 15 : ~HasBit(log[i][3], k)
                    /\ i < Len(log) => op = "write_str" /\ callStart >= i
                    /\ i = Len(log) => pc = "idle" \/ callStart = i
              /\ (IsFlagRead(log[i]) /\ ~SawTxFull(log[i])) =>
                    IF i < Len(log) THEN IsDataWrite(log[i + 1])
                    ELSE pc = "write_byte_dr"
        /\ (pc = "idle" /\ log # <<>>) => IsDataWrite(log[Len(log)])

\* write_byte(0xFF) has returned after one flag read, with TXFF clear, and
\* the write of 0x00FF.
C17_Witness ==
    /\ op = "write_byte" /\ pc = "idle"
    /\ args.byte = 255
    /\ Len(log) = 2
    /\ IsFlagRead(log[1]) /\ ~SawTxFull(log[1])
    /\ log[2] = Write("dr", 255)

\* The registers the driver may write, and those it may read.
WrittenRegisters == { "dr", "rsr", "ibrd", "fbrd", "cr" }
ReadRegisters == { "dr", "fr", "cr" }

\* Registers the driver leaves alone: IrDA low-power counter, line control,
\* the interrupt registers and DMA control.
UntouchedRegisters ==
    { "ilpr", "lcr_h", "ifls", "imsc", "ris", "mis", "icr", "dmacr" }

\* C18: over any sequence of the driver's operations the driver writes only
\* the Data, RSR/ECR, IBRD, FBRD and Control registers, and neither writes
\* nor reads the interrupt registers, DMA control, line control or the IrDA
\* register.
C18_OnlyFiveRegistersWritten ==
    \A i \in 1 .. Len(log) :
        /\ log[i][2] \notin UntouchedRegisters
        /\ IsWrite(log[i]) => log[i][2] \in WrittenRegisters
        /\ IsRead(log[i]) => log[i][2] \in ReadRegisters
        /\ IsWrite(log[i]) \/ IsRead(log[i])

\* init has returned after its six register accesses, following transmit
\* and receive traffic and a status query.
C18_Witness ==
    /\ op = "init" /\ pc = "idle"
    /\ Len(log) = 6
    /\ { log[i][2] : i \in 1 .. Len(log) } = { "cr", "ibrd", "fbrd", "rsr" }
    /\ prev[1] = "read_ready"
    /\ enqueued # <<>> /\ results # <<>>

\* The call before the current one was the query named, and it returned
\* Ok(true).
AfterReady(query) == prev[1] = query /\ prev[2][2]

\* C19: with one owner and a device that only takes entries out of the
\* transmit FIFO, the check-then-write of write_byte is safe: whenever the
\* Data Register is about to be written the transmit FIFO has room, so it
\* never overflows and no byte is lost; after write_ready returned true the
\* FIFO keeps its room, and the transmit call that follows finds TXFF clear
\* at its first flag read and writes without spinning.
C19_CheckThenWriteIsSafe ==
    /\ pc = "write_byte_dr" => Len(txFifo) < FifoDepth
    /\ Len(txFifo) <= FifoDepth
    /\ txDropped = 0
    /\ (op = "write_ready" /\ ret[2]) => Len(txFifo) < FifoDepth
    /\ (Transmitting /\ AfterReady("write_ready")) =>
          /\ pc = "write_byte_flags" => log = <<>> \/ op = "write_str"
          /\ Len(log) >= 1 => IsFlagRead(log[1]) /\ ~SawTxFull(log[1])
          /\ Len(log) >= 2 => IsDataWrite(log[2])

\* After write_ready returned true, write_byte has made one flag read and
\* the write that took the last free place of the transmit FIFO.
C19_Witness ==
    /\ op = "write_byte" /\ pc = "idle"
    /\ AfterReady("write_ready")
    /\ Len(log) = 2
    /\ Len(txFifo) = FifoDepth

\* C20: with one owner and a device that only adds entries to the receive
\* FIFO, the check-then-read of read_byte is safe: whenever the Data
\* Register is about to be read the receive FIFO holds an entry; after
\* read_ready returned true the FIFO stays non-empty, and the read_byte that
\* follows finds RXFE clear, reads the Data Register and never returns
\* "no data".
C20_CheckThenReadIsSafe ==
    /\ pc = "read_byte_dr" => rxFifo # <<>>
    /\ (op = "read_ready" /\ ret[2]) => rxFifo # <<>>
    /\ (op = "read_byte" /\ AfterReady("read_ready")) =>
          /\ Len(log) >= 1 => IsFlagRead(log[1]) /\ ~SawRxEmpty(log[1])
          /\ pc = "idle" =>
                /\ ret # <<"Ok", "None">>
                /\ Len(log) = 2 /\ IsDataRead(log[2])
                /\ ret = Outcome(log[2][3])

\* After read_ready returned true, read_byte has returned the character of
\* the entry that was waiting.
C20_Witness ==
    /\ op = "read_byte" /\ pc = "idle"
    /\ AfterReady("read_ready")
    /\ ret = <<"Ok", "Some", 66>>

====
